---- MODULE Spec2Model ----
(***************************************************************************)
(* GAKR AI backend: the file pipeline (file_pipeline.py) and the           *)
(* /api/analyze handler (run.py).                                          *)
(*                                                                         *)
(* Strings are sequences of one-character strings, so that splitext,       *)
(* basename, join, lower and startswith are computed as Python computes    *)
(* them.  Python's None is the value None below.                           *)
(***************************************************************************)
EXTENDS Integers, Sequences, FiniteSets, TLC

VARIABLES
    whisper_model,  \* file_pipeline._whisper_model: 0 is None, n > 0 the n-th loaded instance
    loadAttempts,   \* number of whisper.load_model invocations so far
    loadSuccesses,  \* number of whisper.load_model invocations that returned a model
    disk,           \* set of paths that exist on the filesystem
    now,            \* the UTC clock, in microseconds
    call,           \* the last call of a function under test: its arguments and what it returned
    calls,          \* work done so far: analyze_file calls made, or requests plus files accepted
    pc,             \* position of the /api/analyze handler
    req,            \* the request being handled
    idx,            \* process_files: index of the next file of the loop
    results,        \* process_files: the results list
    trace,          \* what the handler invoked for the request being handled
    status          \* HTTP status of the last response (0: none yet)

vars == <<whisper_model, loadAttempts, loadSuccesses, disk, now, call, calls,
          pc, req, idx, results, trace, status>>

-----------------------------------------------------------------------------
(* Bounds of the model *)

MaxStem == 2        \* longest prefix put in front of an extension (detect_kind)
MaxName == 4        \* longest original filename (make_target_path)
MaxCalls == 3       \* analyze_file calls of one process
MaxWork == 3        \* requests plus uploaded files handled by one process
MaxClock == 11      \* latest clock reading given to make_target_path

-----------------------------------------------------------------------------
(* Python strings *)

None == <<"<None>">>

UpperChars == <<"A","B","C","D","E","F","G","H","I","J","K","L","M",
                "N","O","P","Q","R","S","T","U","V","W","X","Y","Z">>
LowerChars == <<"a","b","c","d","e","f","g","h","i","j","k","l","m",
                "n","o","p","q","r","s","t","u","v","w","x","y","z">>

\* str.lower() of one character
LowerChar(c) ==
    IF \E i \in 1..Len(UpperChars) : UpperChars[i] = c
    THEN LowerChars[CHOOSE i \in 1..Len(UpperChars) : UpperChars[i] = c]
    ELSE c

lower(s) == [i \in 1..Len(s) |-> LowerChar(s[i])]

\* str.rfind of one character, 1-based; 0 when absent
rfind(s, c) ==
    IF \E i \in 1..Len(s) : s[i] = c
    THEN CHOOSE i \in 1..Len(s) : s[i] = c /\ \A j \in (i+1)..Len(s) : s[j] # c
    ELSE 0

startswith(s, p) == Len(s) >= Len(p) /\ SubSeq(s, 1, Len(p)) = p

\* str.strip(): leading and trailing whitespace removed
IsSpace(c) == c \in {" ", "\t", "\n"}
strip(s) ==
    IF \A i \in 1..Len(s) : IsSpace(s[i]) THEN <<>>
    ELSE LET a == CHOOSE i \in 1..Len(s) : ~IsSpace(s[i]) /\ \A j \in 1..(i-1) : IsSpace(s[j])
             b == CHOOSE i \in 1..Len(s) : ~IsSpace(s[i]) /\ \A j \in (i+1)..Len(s) : IsSpace(s[j])
         IN SubSeq(s, a, b)

\* os.path.splitext(p)[1] (genericpath._splitext, sep "/", extsep "."):
\* the extension starts at the last dot after the last separator, unless
\* only dots stand between the separator and it
splitext_ext(p) ==
    LET sepIndex == rfind(p, "/")
        dotIndex == rfind(p, ".")
    IN IF dotIndex > sepIndex /\ \E i \in (sepIndex+1)..(dotIndex-1) : p[i] # "."
       THEN SubSeq(p, dotIndex, Len(p))
       ELSE <<>>

\* os.path.basename (posixpath): what follows the last "/"
basename(p) == SubSeq(p, rfind(p, "/") + 1, Len(p))

\* str.rstrip("/")
RECURSIVE rstrip_sep(_)
rstrip_sep(s) ==
    IF s # <<>> /\ s[Len(s)] = "/" THEN rstrip_sep(SubSeq(s, 1, Len(s) - 1)) ELSE s

\* os.path.dirname (posixpath)
dirname(p) ==
    LET head == SubSeq(p, 1, rfind(p, "/"))
    IN IF head # <<>> /\ \E i \in 1..Len(head) : head[i] # "/"
       THEN rstrip_sep(head) ELSE head

\* os.path.join(a, b) (posixpath): an absolute b discards a
join(a, b) ==
    IF startswith(b, <<"/">>) THEN b
    ELSE IF a = <<>> \/ a[Len(a)] = "/" THEN a \o b
    ELSE a \o <<"/">> \o b

-----------------------------------------------------------------------------
(* TYPE DETECTION *)

TabularExts  == { <<".","c","s","v">>, <<".","x","l","s","x">>, <<".","x","l","s">>,
                  <<".","j","s","o","n">> }
DocumentExts == { <<".","p","d","f">>, <<".","t","x","t">> }
DocxExts     == { <<".","d","o","c","x">> }
ImageExts    == { <<".","p","n","g">>, <<".","j","p","g">>, <<".","j","p","e","g">>,
                  <<".","w","e","b","p">>, <<".","b","m","p">> }
AudioExts    == { <<".","m","p","3">>, <<".","w","a","v">>, <<".","m","4","a">> }
VideoExts    == { <<".","m","p","4">>, <<".","m","k","v">>, <<".","m","o","v">>,
                  <<".","a","v","i">> }

RaiseTypeError == "raise TypeError"

\* detect_kind with the content type consulted first: a plausible slip
detect_kind_ctype_first(filename, content_type) ==
    IF filename = None THEN RaiseTypeError
    ELSE LET ext == lower(splitext_ext(filename)) IN
         IF content_type # None /\ startswith(content_type, <<"i","m","a","g","e","/">>) THEN "image"
         ELSE IF content_type # None /\ startswith(content_type, <<"a","u","d","i","o","/">>) THEN "audio"
         ELSE IF content_type # None /\ startswith(content_type, <<"v","i","d","e","o","/">>) THEN "video"
         ELSE IF ext \in TabularExts THEN "tabular"
         ELSE IF ext \in DocumentExts \cup DocxExts THEN "document"
         ELSE IF ext \in ImageExts THEN "image"
         ELSE IF ext \in AudioExts THEN "audio"
         ELSE IF ext \in VideoExts THEN "video"
         ELSE "other"

\* detect_kind(filename, content_type); os.path.splitext(None) raises TypeError
detect_kind(filename, content_type) ==
    IF filename = None THEN RaiseTypeError
    ELSE LET ext == lower(splitext_ext(filename)) IN
         IF ext \in TabularExts THEN "tabular"
         ELSE IF ext \in DocumentExts THEN "document"
         ELSE IF ext \in DocxExts THEN "document"
         ELSE IF ext \in ImageExts THEN "image"
         ELSE IF ext \in AudioExts THEN "audio"
         ELSE IF ext \in VideoExts THEN "video"
         ELSE IF content_type # None /\ content_type # <<>>
                 /\ startswith(content_type, <<"i","m","a","g","e","/">>) THEN "image"
         ELSE IF content_type # None /\ content_type # <<>>
                 /\ startswith(content_type, <<"a","u","d","i","o","/">>) THEN "audio"
         ELSE IF content_type # None /\ content_type # <<>>
                 /\ startswith(content_type, <<"v","i","d","e","o","/">>) THEN "video"
         ELSE "other"

-----------------------------------------------------------------------------
(* PATHS & FOLDERS *)

\* BASE_DIR: the absolute directory of file_pipeline.py (here /srv)
BASE_DIR == <<"/","s","r","v">>

UPLOAD_ROOT == join(BASE_DIR, <<"d","a","t","a","u","p","l","o","a","d">>)

FolderKinds == {"image", "video", "audio", "document", "tabular", "other"}

FOLDERS ==
    [image    |-> <<"i","m","a","g","e","s">>,
     video    |-> <<"v","i","d","e","o","s">>,
     audio    |-> <<"a","u","d","i","o">>,
     document |-> <<"d","o","c","u","m","e","n","t","s">>,
     tabular  |-> <<"t","a","b","u","l","a","r">>,
     other    |-> <<"o","t","h","e","r">>]

\* FOLDERS.get(kind, "other")
FOLDERS_get(kind) == IF kind \in FolderKinds THEN FOLDERS[kind] ELSE FOLDERS["other"]

DigitChars == <<"0","1","2","3","4","5","6","7","8","9">>

\* number of digits of strftime's %f
UsecDigits == 6

RECURSIVE Pow10(_)
Pow10(n) == IF n = 0 THEN 1 ELSE 10 * Pow10(n - 1)

\* datetime.utcnow().strftime("%Y%m%d_%H%M%S_%f") at clock reading t: the
\* clock counts the microseconds of one second, 2025-01-01 00:00:00 UTC
strftime(t) ==
    <<"2","0","2","5","0","1","0","1","_","0","0","0","0","0","0","_">>
    \o [i \in 1..UsecDigits |-> DigitChars[((t \div Pow10(UsecDigits - i)) % 10) + 1]]

\* make_target_path without os.path.basename: the name is used as given
make_target_path_unsafe(kind, filename, t) ==
    IF filename = None THEN <<RaiseTypeError>>
    ELSE join(join(UPLOAD_ROOT, FOLDERS_get(kind)), strftime(t) \o <<"_">> \o filename)

\* make_target_path(kind, filename), the clock reading t;
\* os.path.basename(None) raises TypeError
make_target_path(kind, filename, t) ==
    IF filename = None THEN <<RaiseTypeError>>
    ELSE LET sub == FOLDERS_get(kind)
             safe_name == basename(filename)
             timestamp == strftime(t)
             final_name == timestamp \o <<"_">> \o safe_name
         IN join(join(UPLOAD_ROOT, sub), final_name)

\* os.path.relpath(path, start) for a path below start (both normalised)
relpath(path, start) ==
    IF startswith(path, start \o <<"/">>)
    THEN SubSeq(path, Len(start) + 2, Len(path))
    ELSE path

-----------------------------------------------------------------------------
(* The state of a process in which nothing has run yet *)

NoCall == [op |-> "none"]
NoRequest == [prompt |-> <<>>, api_key |-> <<>>, files |-> <<>>]
NoTrace ==
    [recorded |-> <<>>,         \* the file indices a record was appended for, in order
     saved |-> {},              \* the file indices whose bytes were persisted
     save_failed |-> {},        \* the file indices whose persisting raised
     analyzed |-> {},           \* the file indices analyze_file was called for
     wrote |-> {},              \* the paths created
     opened |-> <<>>,           \* the paths opened for writing ("wb"), in order
     process_files |-> 0,       \* calls of process_files
     generate_response |-> 0,   \* calls of generate_response
     failure |-> "none"]        \* the call that raised

ProcessIdle ==
    /\ whisper_model = 0
    /\ loadAttempts = 0
    /\ loadSuccesses = 0
    /\ disk = {}
    /\ calls = 0

HandlerIdle ==
    /\ pc = "idle"
    /\ req = NoRequest
    /\ idx = 0
    /\ results = <<>>
    /\ trace = NoTrace
    /\ status = 0

BoundedSeqs(S, n) == UNION { [1..k -> S] : k \in 0..n }

-----------------------------------------------------------------------------
(* detect_kind over a bounded set of filenames and content types *)

StemChars == {"a", ".", "/"}

ExtSamples ==
    TabularExts \cup DocumentExts \cup DocxExts \cup ImageExts \cup AudioExts \cup VideoExts
    \cup { <<".","C","S","V">>, <<".","J","p","G">>, <<".","P","D","F">>, <<".","D","o","c","X">>,
           <<".","M","P","4">>, <<".","W","a","v">>,
           <<".","z","i","p">>, <<".","c","s","v","x">>, <<"c","s","v">>, <<".">>, <<>>,
           <<".","c","s","v",".","z","i","p">>, <<".","z","i","p",".","m","p","3">>,
           <<".","p","n","g","/","b">> }

KindFilenames == { p \o e : p \in BoundedSeqs(StemChars, MaxStem), e \in ExtSamples } \cup {None}

ContentTypes ==
    { None, <<>>,
      <<"i","m","a","g","e","/","p","n","g">>, <<"a","u","d","i","o","/","o","g","g">>,
      <<"v","i","d","e","o","/","x">>, <<"t","e","x","t","/","c","s","v">>,
      <<"I","M","A","G","E","/","p","n","g">>, <<"i","m","a","g","e">>,
      <<"x","a","u","d","i","o","/">>, <<"v","i","d","e","o","/">> }

InitKind ==
    /\ ProcessIdle /\ HandlerIdle /\ now = 0
    /\ call \in [op : {"detect_kind"}, filename : KindFilenames, content_type : ContentTypes,
                 done : {FALSE}, ret : {"pending"}]

DetectKindCall ==
    /\ call.op = "detect_kind" /\ ~call.done
    /\ call' = [call EXCEPT !.done = TRUE, !.ret = detect_kind(call.filename, call.content_type)]
    /\ UNCHANGED <<whisper_model, loadAttempts, loadSuccesses, disk, now, calls,
                   pc, req, idx, results, trace, status>>

NextKind == DetectKindCall

SpecKind == InitKind /\ [][NextKind]_vars

\* the extension table of the classifier, as data
ExtKind(ext) ==
    CASE ext \in TabularExts -> "tabular"
      [] ext \in DocumentExts \cup DocxExts -> "document"
      [] ext \in ImageExts -> "image"
      [] ext \in AudioExts -> "audio"
      [] ext \in VideoExts -> "video"
      [] OTHER -> "none"

MediaKind(ct) ==
    CASE ct = None -> "none"
      [] startswith(ct, <<"i","m","a","g","e","/">>) -> "image"
      [] startswith(ct, <<"a","u","d","i","o","/">>) -> "audio"
      [] startswith(ct, <<"v","i","d","e","o","/">>) -> "video"
      [] OTHER -> "none"

KindReturned == call.op = "detect_kind" /\ call.done /\ call.filename # None

\* C6: detect_kind on a string filename always returns a kind; a filename
\* whose lower-cased extension is in the table gets the table's kind whatever
\* the content type; with an unrecognised extension a content type starting
\* with image/, audio/ or video/ gives that media kind, and anything else
\* (absent, empty, any other value) gives other.
C6_DetectKind ==
    KindReturned =>
        LET ext == lower(splitext_ext(call.filename))
            ct == call.content_type
        IN /\ call.ret \in FolderKinds
           /\ ExtKind(ext) # "none" => call.ret = ExtKind(ext)
           /\ (ExtKind(ext) = "none" /\ MediaKind(ct) # "none") => call.ret = MediaKind(ct)
           /\ (ExtKind(ext) = "none" /\ MediaKind(ct) = "none") => call.ret = "other"

\* C6 witness: a recognised upper-case extension wins over a contradicting content type
C6_Witness ==
    /\ KindReturned
    /\ call.filename = <<"a", ".", "C", "S", "V">>
    /\ call.content_type = <<"i","m","a","g","e","/","p","n","g">>
    /\ call.ret = "tabular"

-----------------------------------------------------------------------------
(* make_target_path over a bounded set of kinds, filenames and clock readings *)

PathKinds == FolderKinds \cup {"unknown", ""}

InitPath ==
    /\ ProcessIdle /\ HandlerIdle
    /\ now \in 0..MaxClock
    /\ call \in [op : {"make_target_path"}, kind : PathKinds,
                 filename : BoundedSeqs(StemChars, MaxName),
                 done : {FALSE}, ret : {<<>>}]

MakeTargetPathCall ==
    /\ call.op = "make_target_path" /\ ~call.done
    /\ call' = [call EXCEPT !.done = TRUE,
                            !.ret = make_target_path(call.kind, call.filename, now)]
    /\ UNCHANGED <<whisper_model, loadAttempts, loadSuccesses, disk, now, calls,
                   pc, req, idx, results, trace, status>>

NextPath == MakeTargetPathCall

SpecPath == InitPath /\ [][NextPath]_vars

HasSep(s) == \E i \in 1..Len(s) : s[i] = "/"

\* the name with its directory components stripped: the suffix after the last "/"
Stripped(name, s) ==
    /\ ~HasSep(s)
    /\ \/ name = s
       \/ \E k \in 1..Len(name) : name[k] = "/" /\ SubSeq(name, k + 1, Len(name)) = s

PathReturned == call.op = "make_target_path" /\ call.done

\* C7: for every kind and filename the path returned has the directory
\* UPLOAD_ROOT/<sub-directory of the kind> ("other" for a kind outside the
\* table), its basename is the timestamp, "_" and the filename stripped of its
\* directory components, and it lies below the upload root.
C7_TargetPath ==
    PathReturned =>
        LET sub == IF call.kind \in FolderKinds THEN FOLDERS[call.kind]
                   ELSE <<"o","t","h","e","r">>
            stamp == strftime(now) \o <<"_">>
            base == basename(call.ret)
        IN /\ dirname(call.ret) = UPLOAD_ROOT \o <<"/">> \o sub
           /\ startswith(base, stamp)
           /\ Stripped(call.filename, SubSeq(base, Len(stamp) + 1, Len(base)))
           /\ startswith(call.ret, UPLOAD_ROOT \o <<"/">>)
           /\ base \notin {<<".">>, <<".", ".">>}

\* C7 witness: a traversal name given with a kind outside the folder table
C7_Witness ==
    /\ PathReturned
    /\ call.kind = "unknown"
    /\ call.filename = <<".", ".", "/", "a">>
    /\ call.ret = UPLOAD_ROOT \o <<"/","o","t","h","e","r","/">> \o strftime(now) \o <<"_", "a">>

-----------------------------------------------------------------------------
(* TYPE-SPECIFIC ANALYSIS                                                  *)
(*                                                                         *)
(* The process state an analyzer reads and writes is the record            *)
(* [model, attempts, successes, disk].  env gives the outcome of every     *)
(* library call the analyzer may make (TRUE: it returns; FALSE: it         *)
(* raises).  An analyzer returns [raised, summary, st, invoked, failed]:   *)
(* whether an exception left it, the summary, the process state after it,  *)
(* the library calls it made and those of them that raised.                *)
(***************************************************************************)

ProcessState ==
    [model |-> whisper_model, attempts |-> loadAttempts,
     successes |-> loadSuccesses, disk |-> disk]

NoSummary == [raise |-> "exception"]

Returns(summary, st, invoked, failed) ==
    [raised |-> FALSE, summary |-> summary, st |-> st, invoked |-> invoked, failed |-> failed]

Raises(st, invoked, failed) ==
    [raised |-> TRUE, summary |-> NoSummary, st |-> st, invoked |-> invoked, failed |-> failed]

\* ---------- TABULAR: CSV / Excel / JSON ----------

analyze_tabular(path, st, env) ==
    LET ext == lower(splitext_ext(path)) IN
    IF ext \notin {<<".","c","s","v">>, <<".","x","l","s","x">>, <<".","x","l","s">>,
                   <<".","j","s","o","n">>}
    THEN Returns([type |-> "tabular", error |-> "Unsupported tabular format"], st, {}, {})
    ELSE IF ~env.read
    THEN Returns([type |-> "tabular", error |-> "Failed to load table"],
                 st, {"pd.read"}, {"pd.read"})
    ELSE LET base == [type |-> "tabular", rows |-> "rows", columns |-> "columns"]
             withMissing ==
                 IF env.isna THEN base @@ [missing_values |-> "counts"]
                 ELSE base @@ [missing_values_error |-> "message"]
             summary ==
                 withMissing @@ [numeric_stats |-> IF env.describe THEN "stats" ELSE "{}"]
         IN Returns(summary, st, {"pd.read", "df.isna", "df.describe"},
                    (IF env.isna THEN {} ELSE {"df.isna"})
                    \cup (IF env.describe THEN {} ELSE {"df.describe"}))

\* ---------- DOCUMENTS: PDF / DOCX / TXT ----------

analyze_document(path, st, env) ==
    LET ext == lower(splitext_ext(path))
        ok(invoked, failed) ==
            Returns([type |-> "document", char_count |-> "len", preview |-> "text"],
                    st, invoked, failed)
        err(invoked, failed) ==
            Returns([type |-> "document", error |-> "Failed to extract document text"],
                    st, invoked, failed)
    IN IF ext = <<".","p","d","f">>
       THEN IF env.plumber THEN ok({"pdfplumber.open"}, {})
            ELSE IF env.fitz THEN ok({"pdfplumber.open", "fitz.open"}, {"pdfplumber.open"})
            ELSE err({"pdfplumber.open", "fitz.open"}, {"pdfplumber.open", "fitz.open"})
       ELSE IF ext = <<".","d","o","c","x">>
       THEN IF env.read THEN ok({"docx.Document"}, {})
            ELSE err({"docx.Document"}, {"docx.Document"})
       ELSE IF env.read THEN ok({"open"}, {})
            ELSE err({"open"}, {"open"})

\* ---------- IMAGES ----------

analyze_image(path, st, env) ==
    IF ~env.open
    THEN Returns([type |-> "image", error |-> "Failed to open image"],
                 st, {"Image.open"}, {"Image.open"})
    ELSE LET result == [type |-> "image", size |-> "size", ocr_preview |-> "text"] IN
         IF env.ocr
         THEN Returns(result, st, {"Image.open", "image_to_string"}, {})
         ELSE Returns(result @@ [ocr_error |-> "message"], st,
                      {"Image.open", "image_to_string"}, {"image_to_string"})

\* ---------- AUDIO (Whisper) ----------

\* get_whisper_model that loads on every call: the None check left out
get_whisper_model_reload(st, env) ==
    IF env.whisperLoad
    THEN [raised |-> FALSE, invoked |-> {"whisper.load_model"}, failed |-> {},
          st |-> [st EXCEPT !.model = st.successes + 1,
                            !.attempts = st.attempts + 1,
                            !.successes = st.successes + 1]]
    ELSE [raised |-> TRUE, invoked |-> {"whisper.load_model"},
          failed |-> {"whisper.load_model"},
          st |-> [st EXCEPT !.attempts = st.attempts + 1]]

\* get_whisper_model that remembers a failed load in the global (-1)
get_whisper_model_sentinel(st, env) ==
    IF st.model = 0
    THEN IF env.whisperLoad
         THEN [raised |-> FALSE, invoked |-> {"whisper.load_model"}, failed |-> {},
               st |-> [st EXCEPT !.model = st.successes + 1,
                                 !.attempts = st.attempts + 1,
                                 !.successes = st.successes + 1]]
         ELSE [raised |-> TRUE, invoked |-> {"whisper.load_model"},
               failed |-> {"whisper.load_model"},
               st |-> [st EXCEPT !.model = -1, !.attempts = st.attempts + 1]]
    ELSE [raised |-> st.model = -1, invoked |-> {}, failed |-> {}, st |-> st]

\* get_whisper_model(): loads when the global is None, the n-th successful
\* load giving instance n; a failed load raises RuntimeError
get_whisper_model(st, env) ==
    IF st.model = 0
    THEN IF env.whisperLoad
         THEN [raised |-> FALSE, invoked |-> {"whisper.load_model"}, failed |-> {},
               st |-> [st EXCEPT !.model = st.successes + 1,
                                 !.attempts = st.attempts + 1,
                                 !.successes = st.successes + 1]]
         ELSE [raised |-> TRUE, invoked |-> {"whisper.load_model"},
               failed |-> {"whisper.load_model"},
               st |-> [st EXCEPT !.attempts = st.attempts + 1]]
    ELSE [raised |-> FALSE, invoked |-> {}, failed |-> {}, st |-> st]

\* analyze_audio with the model obtained outside the try
analyze_audio_uncaught(path, st, env) ==
    LET g == get_whisper_model(st, env)
        inv == {"get_whisper_model"} \cup g.invoked
    IN IF g.raised THEN Raises(g.st, inv, g.failed)
       ELSE IF ~env.transcribe
       THEN Returns([type |-> "audio", error |-> "Whisper transcription failed"],
                    g.st, inv \cup {"model.transcribe"}, g.failed \cup {"model.transcribe"})
       ELSE Returns([type |-> "audio", duration_sec |-> "end", transcript_preview |-> "text"],
                    g.st, inv \cup {"model.transcribe"}, g.failed)

analyze_audio(path, st, env) ==
    LET g == get_whisper_model(st, env)
        inv == {"get_whisper_model"} \cup g.invoked
    IN IF g.raised
       THEN Returns([type |-> "audio", error |-> "Failed to load Whisper model"],
                    g.st, inv, g.failed)
       ELSE IF ~env.transcribe
       THEN Returns([type |-> "audio", error |-> "Whisper transcription failed"],
                    g.st, inv \cup {"model.transcribe"}, g.failed \cup {"model.transcribe"})
       ELSE Returns([type |-> "audio", duration_sec |-> "end", transcript_preview |-> "text"],
                    g.st, inv \cup {"model.transcribe"}, g.failed)

\* ---------- VIDEO (audio extraction + Whisper) ----------

TmpAudio(path) == path \o <<".","t","m","p","_","a","u","d","i","o",".","w","a","v">>

\* env.ffmpeg: "ok" (the audio file is written), "fail" (ffmpeg raises and
\* writes nothing), "partial" (ffmpeg raises after creating the output file).
\* env.remove: whether os.remove returns; its exception is swallowed.
analyze_video(path, st, env) ==
    LET audio_path == TmpAudio(path) IN
    IF env.ffmpeg # "ok"
    THEN Returns([type |-> "video", error |-> "Failed to extract audio from video"],
                 [st EXCEPT !.disk = IF env.ffmpeg = "partial" THEN @ \cup {audio_path} ELSE @],
                 {"ffmpeg.run"}, {"ffmpeg.run"})
    ELSE LET a == analyze_audio(audio_path, [st EXCEPT !.disk = @ \cup {audio_path}], env)
             cleaned == [a.st EXCEPT !.disk = IF env.remove THEN @ \ {audio_path} ELSE @]
             inv == {"ffmpeg.run", "os.remove"} \cup a.invoked
             failed == a.failed \cup (IF env.remove THEN {} ELSE {"os.remove"})
         IN IF a.raised THEN Raises(cleaned, inv, failed)
            ELSE Returns([type |-> "video", audio_analysis |-> a.summary], cleaned, inv, failed)

analyze_file(path, kind, st, env) ==
    CASE kind = "tabular"  -> analyze_tabular(path, st, env)
      [] kind = "document" -> analyze_document(path, st, env)
      [] kind = "image"    -> analyze_image(path, st, env)
      [] kind = "audio"    -> analyze_audio(path, st, env)
      [] kind = "video"    -> analyze_video(path, st, env)
      [] OTHER -> Returns([type |-> "other", note |-> "Unsupported or unknown file type"],
                          st, {}, {})

\* the outcomes of the library calls the analyzer of a kind can make
AllOk ==
    [read |-> TRUE, isna |-> TRUE, describe |-> TRUE, plumber |-> TRUE, fitz |-> TRUE,
     open |-> TRUE, ocr |-> TRUE, whisperLoad |-> TRUE, transcribe |-> TRUE,
     ffmpeg |-> "ok", remove |-> TRUE]

EnvsFor(kind) ==
    CASE kind = "tabular" ->
           { [AllOk EXCEPT !.read = a, !.isna = b, !.describe = c] : a, b, c \in BOOLEAN }
      [] kind = "document" ->
           { [AllOk EXCEPT !.read = a, !.plumber = b, !.fitz = c] : a, b, c \in BOOLEAN }
      [] kind = "image" ->
           { [AllOk EXCEPT !.open = a, !.ocr = b] : a, b \in BOOLEAN }
      [] kind = "audio" ->
           { [AllOk EXCEPT !.whisperLoad = a, !.transcribe = b] : a, b \in BOOLEAN }
      [] kind = "video" ->
           { [AllOk EXCEPT !.whisperLoad = a, !.transcribe = b, !.remove = c, !.ffmpeg = f] :
               a, b, c \in BOOLEAN, f \in {"ok", "fail", "partial"} }
      [] OTHER -> {AllOk}

-----------------------------------------------------------------------------
(* A process making a sequence of analyze_file calls.  analyze_file is     *)
(* synchronous (it holds no await), so a call is one step.                 *)

AnalyzePaths ==
    { <<"a",".","X","L","S">>, <<"a",".","p","d","f">>, <<"a",".","d","o","c","x">>,
      <<"a",".","m","p","4">> }

AnalyzeKinds == FolderKinds \cup {"unknown"}

AnalyzerKinds == {"tabular", "document", "image", "audio", "video"}

InitAnalyze ==
    /\ ProcessIdle /\ HandlerIdle /\ now = 0
    /\ call = NoCall

AnalyzeFileCall ==
    /\ calls < MaxCalls
    /\ \E path \in AnalyzePaths, kind \in AnalyzeKinds :
         \E env \in EnvsFor(kind) :
          \E r \in {analyze_file(path, kind, ProcessState, env)} :
            /\ call' = [op |-> "analyze_file", path |-> path, kind |-> kind,
                        raised |-> r.raised, summary |-> r.summary,
                        invoked |-> r.invoked, failed |-> r.failed]
            /\ whisper_model' = r.st.model
            /\ loadAttempts' = r.st.attempts
            /\ loadSuccesses' = r.st.successes
            /\ disk' = r.st.disk
    /\ calls' = calls + 1
    /\ UNCHANGED <<now, pc, req, idx, results, trace, status>>

NextAnalyze == AnalyzeFileCall

SpecAnalyze == InitAnalyze /\ [][NextAnalyze]_vars

Analyzed == call.op = "analyze_file"

HasError(summary) == "error" \in DOMAIN summary

\* the library calls whose failure is the analyzer's failure: table load,
\* document parse (the last parser tried), file or image open, model load,
\* transcription, audio extraction
ListedFailures ==
    {"pd.read", "fitz.open", "docx.Document", "open", "Image.open",
     "whisper.load_model", "model.transcribe", "ffmpeg.run"}

AudioFailures == {"whisper.load_model", "model.transcribe"}

\* C3 as claimed: analyze_file never raises, and whenever one of the listed
\* library calls failed during the call the summary returned is
\* {type: <kind>, error: <message>}; a kind without analyzer gets type other
\* and a note.
C3_AsClaimed ==
    Analyzed =>
        /\ ~call.raised
        /\ (call.kind \in AnalyzerKinds /\ call.failed \cap ListedFailures # {})
              => (call.summary.type = call.kind /\ HasError(call.summary))
        /\ call.kind \notin AnalyzerKinds
              => (call.summary.type = "other" /\ "note" \in DOMAIN call.summary)

\* C3 amended: analyze_file never raises; a failed listed library call gives
\* {type: <kind>, error: <message>}, except that for kind video a failed
\* model load or transcription (audio extraction having succeeded) gives
\* {type: video, audio_analysis: {type: audio, error: <message>}} with no
\* error field of its own; a kind without analyzer gets type other and a note.
C3_NeverRaises ==
    Analyzed =>
        /\ ~call.raised
        /\ (call.kind \in AnalyzerKinds /\ call.failed \cap ListedFailures # {}
            /\ ~(call.kind = "video" /\ "ffmpeg.run" \notin call.failed))
              => (call.summary.type = call.kind /\ HasError(call.summary))
        /\ (call.kind = "video" /\ "ffmpeg.run" \notin call.failed
            /\ call.failed \cap AudioFailures # {})
              => /\ call.summary.type = "video"
                 /\ ~HasError(call.summary)
                 /\ call.summary.audio_analysis.type = "audio"
                 /\ HasError(call.summary.audio_analysis)
        /\ call.kind \notin AnalyzerKinds
              => (call.summary.type = "other" /\ "note" \in DOMAIN call.summary)

\* C3 witness: a video whose audio was extracted and whose model load failed
C3_Witness ==
    /\ Analyzed
    /\ call.kind = "video"
    /\ call.failed = {"whisper.load_model"}
    /\ ~call.raised
    /\ call.summary = [type |-> "video",
                       audio_analysis |-> [type |-> "audio",
                                           error |-> "Failed to load Whisper model"]]

\* C4: after a call of the video analyzer has returned, the temporary audio
\* file of its video is not on the filesystem.
C4_TmpAudioAbsent ==
    (Analyzed /\ call.kind = "video") => TmpAudio(call.path) \notin disk

AudioAnalyzerRan == "get_whisper_model" \in call.invoked

\* C5: the model load succeeds at most once; a call of the audio analyzer
\* made while no model is cached invokes the load, and once a model is cached
\* no call invokes the load again or changes the cached instance.
C5_LoadOnce ==
    [][/\ loadSuccesses' <= 1
       /\ (whisper_model = 0 /\ AudioAnalyzerRan') => loadAttempts' = loadAttempts + 1
       /\ whisper_model # 0 => (/\ whisper_model' = whisper_model
                                /\ loadAttempts' = loadAttempts
                                /\ loadSuccesses' = loadSuccesses)]_vars

\* C5 witness: an audio analysis that ran on the cached instance, no load invoked
C5_Witness ==
    /\ Analyzed
    /\ AudioAnalyzerRan
    /\ "whisper.load_model" \notin call.invoked
    /\ "model.transcribe" \in call.invoked
    /\ whisper_model = 1
    /\ loadSuccesses = 1

\* the summary of the audio analyzer in the last call
AudioSummary ==
    IF call.kind = "video" THEN call.summary.audio_analysis ELSE call.summary

\* C10: a failed model load makes the audio analyzer return
\* {type: audio, error: ...} without raising and leaves the cached instance
\* unset; as long as no load has succeeded every call of the audio analyzer
\* invokes the load again.
C10_LoadRetried ==
    [][(whisper_model = 0 /\ AudioAnalyzerRan') =>
          /\ loadAttempts' = loadAttempts + 1
          /\ "whisper.load_model" \in call'.failed =>
                /\ whisper_model' = 0
                /\ ~call'.raised
                /\ AudioSummary' = [type |-> "audio", error |-> "Failed to load Whisper model"]]_vars

\* C10 witness: a load that succeeds after two failed loads
C10_Witness ==
    /\ Analyzed
    /\ loadAttempts = 3
    /\ loadSuccesses = 1
    /\ whisper_model = 1
    /\ "whisper.load_model" \in call.invoked

-----------------------------------------------------------------------------
(* MAIN MULTI-FILE ENTRY POINT *)

Record(name, stored_path, kind, summary) ==
    [original_name |-> name, stored_path |-> stored_path, kind |-> kind, summary |-> summary]

Handled(records, st, saved, analyzed, wrote) ==
    [records |-> records, st |-> st, saved |-> saved, analyzed |-> analyzed, wrote |-> wrote]

\* the loop body without the continue of the save-failure branch
process_file_no_continue(uf, t, st, save, env) ==
    LET kind == detect_kind(uf.filename, uf.content_type) IN
    IF kind = RaiseTypeError
    THEN Handled(<<Record(uf.filename, None, "unknown",
                          [error |-> "Fatal error while handling file"])>>,
                 st, "none", FALSE, {})
    ELSE LET target_path == make_target_path(kind, uf.filename, t)
             created == IF save = "open_fails" THEN {} ELSE {target_path}
             st1 == [st EXCEPT !.disk = @ \cup created]
             r == analyze_file(target_path, kind, st1, env)
             failure == IF save = "ok" THEN <<>>
                        ELSE <<Record(uf.filename, None, kind,
                                      [error |-> "Failed to save file"])>>
             summary == IF r.raised THEN [error |-> "Unexpected error in analysis"]
                        ELSE r.summary
         IN Handled(failure \o <<Record(uf.filename, relpath(target_path, BASE_DIR),
                                        kind, summary)>>,
                    r.st, IF save = "ok" THEN "ok" ELSE "failed", TRUE, created)

\* the loop body with a save failure logged and the file skipped
process_file_skip(uf, t, st, save, env) ==
    LET kind == detect_kind(uf.filename, uf.content_type) IN
    IF kind = RaiseTypeError
    THEN Handled(<<Record(uf.filename, None, "unknown",
                          [error |-> "Fatal error while handling file"])>>,
                 st, "none", FALSE, {})
    ELSE LET target_path == make_target_path(kind, uf.filename, t)
             created == IF save = "open_fails" THEN {} ELSE {target_path}
             st1 == [st EXCEPT !.disk = @ \cup created]
         IN IF save # "ok"
            THEN Handled(<<>>, st1, "failed", FALSE, created)
            ELSE LET r == analyze_file(target_path, kind, st1, env)
                     summary == IF r.raised THEN [error |-> "Unexpected error in analysis"]
                                ELSE r.summary
                 IN Handled(<<Record(uf.filename, relpath(target_path, BASE_DIR),
                                     kind, summary)>>,
                            r.st, "ok", TRUE, created)

\* One iteration of the loop of process_files over the upload uf, the clock
\* reading t.  save is the outcome of persisting: "ok", "open_fails" (open
\* raises, nothing is created) or "write_fails" (the file is created, then
\* reading the upload or writing raises).  Returns the records appended to
\* results, the process state, and what was done.
process_file(uf, t, st, save, env) ==
    LET kind == detect_kind(uf.filename, uf.content_type) IN
    IF kind = RaiseTypeError
    THEN \* except Exception as outer_err; getattr(uf, "filename", "unknown") is None
         Handled(<<Record(uf.filename, None, "unknown",
                          [error |-> "Fatal error while handling file"])>>,
                 st, "none", FALSE, {})
    ELSE LET target_path == make_target_path(kind, uf.filename, t)
             created == IF save = "open_fails" THEN {} ELSE {target_path}
             st1 == [st EXCEPT !.disk = @ \cup created]
         IN IF save # "ok"
            THEN Handled(<<Record(uf.filename, None, kind,
                                  [error |-> "Failed to save file"])>>,
                         st1, "failed", FALSE, created)
            ELSE LET r == analyze_file(target_path, kind, st1, env)
                     summary == IF r.raised THEN [error |-> "Unexpected error in analysis"]
                                ELSE r.summary
                 IN Handled(<<Record(uf.filename, relpath(target_path, BASE_DIR),
                                     kind, summary)>>,
                            r.st, "ok", TRUE, created)

-----------------------------------------------------------------------------
(* run.py: the /api/analyze handler.  One request is handled at a time;    *)
(* the handler is cut at the suspension of each loop iteration of          *)
(* process_files (await uf.read()).                                        *)

\* API_KEY = "gakr-ai-2025-secret"
API_KEY == <<"g","a","k","r","-","a","i","-","2","0","2","5","-","s","e","c","r","e","t">>

ApiKeys == { API_KEY, <<"g","a","k","r">> }

Prompts == { <<>>, <<" ", "\n">>, <<" ", "h", "i", " ">> }

Uploads ==
    { [filename |-> <<"a",".","c","s","v">>, content_type |-> <<"t","e","x","t","/","c","s","v">>],
      [filename |-> <<".",".","/","v",".","M","P","4">>, content_type |-> None],
      [filename |-> <<"r","e","c">>, content_type |-> <<"a","u","d","i","o","/","o","g","g">>],
      [filename |-> None, content_type |-> None] }

SaveOutcomes == {"ok", "open_fails", "write_fails"}

\* the validation of analyze_endpoint with the prompt checked before the key
validate_prompt_first(prompt, api_key) ==
    IF strip(prompt) = <<>> THEN 400
    ELSE IF api_key # API_KEY THEN 401
    ELSE 0

\* Basic validation: the status of the HTTPException raised, 0 when none is
validate(prompt, api_key) ==
    IF api_key # API_KEY THEN 401
    ELSE IF strip(prompt) = <<>> THEN 400
    ELSE 0

Init ==
    /\ ProcessIdle /\ HandlerIdle /\ now = 0
    /\ call = NoCall

\* analyze_endpoint up to the first suspension: validation, then either the
\* prompt-only branch or the call of process_files, whose ensure_folders()
\* may raise (foldersOk)
AnalyzeEndpoint ==
    /\ pc = "idle"
    /\ calls < MaxWork
    /\ \E prompt \in Prompts, api_key \in ApiKeys,
          files \in BoundedSeqs(Uploads, MaxWork - calls - 1), foldersOk \in BOOLEAN :
         /\ req' = [prompt |-> prompt, api_key |-> api_key, files |-> files]
         /\ calls' = calls + 1 + Len(files)
         /\ LET v == validate(prompt, api_key) IN
            IF v # 0
            THEN /\ status' = v
                 /\ pc' = "idle"
                 /\ trace' = NoTrace
                 /\ UNCHANGED <<idx, results>>
            ELSE IF files = <<>>
            THEN \* CASE 2: prompt only; context = {"files": []}
                 /\ pc' = "generate"
                 /\ results' = <<>>
                 /\ trace' = NoTrace
                 /\ UNCHANGED <<idx, status>>
            ELSE IF ~foldersOk
            THEN \* process_files raises; the handler answers 500
                 /\ status' = 500
                 /\ pc' = "idle"
                 /\ trace' = [NoTrace EXCEPT !.process_files = 1, !.failure = "process_files"]
                 /\ UNCHANGED <<idx, results>>
            ELSE /\ pc' = "loop"
                 /\ idx' = 1
                 /\ results' = <<>>
                 /\ trace' = [NoTrace EXCEPT !.process_files = 1]
                 /\ UNCHANGED status
    /\ UNCHANGED <<whisper_model, loadAttempts, loadSuccesses, disk, now, call>>

\* process_files: one iteration of the loop; after the last one it returns
\* {"files": results} to the handler
ProcessFile ==
    /\ pc = "loop"
    /\ idx <= Len(req.files)
    /\ \E tick \in 0..1, save \in SaveOutcomes :
         /\ now' = now + tick
         /\ LET uf == req.files[idx]
                kind == detect_kind(uf.filename, uf.content_type)
            IN \E env \in EnvsFor(kind) :
               \E h \in {process_file(uf, now + tick, ProcessState, save, env)} :
                 /\ results' = results \o h.records
                 /\ whisper_model' = h.st.model
                 /\ loadAttempts' = h.st.attempts
                 /\ loadSuccesses' = h.st.successes
                 /\ disk' = h.st.disk
                 /\ trace' = [trace EXCEPT
                        !.recorded = @ \o [k \in 1..Len(h.records) |-> idx],
                        !.saved = IF h.saved = "ok" THEN @ \cup {idx} ELSE @,
                        !.save_failed = IF h.saved = "failed" THEN @ \cup {idx} ELSE @,
                        !.analyzed = IF h.analyzed THEN @ \cup {idx} ELSE @,
                        !.wrote = @ \cup h.wrote,
                        !.opened = IF h.wrote = {} THEN @
                                   ELSE Append(@, CHOOSE p \in h.wrote : TRUE)]
    /\ idx' = idx + 1
    /\ pc' = IF idx = Len(req.files) THEN "generate" ELSE "loop"
    /\ UNCHANGED <<call, calls, req, status>>

\* the rest of analyze_endpoint: the prompt is built and generate_response
\* called; its failure is answered 500, its result 200
Generate ==
    /\ pc = "generate"
    /\ \E ok \in BOOLEAN :
         /\ status' = IF ok THEN 200 ELSE 500
         /\ trace' = [trace EXCEPT !.generate_response = 1,
                                   !.failure = IF ok THEN "none" ELSE "generate_response"]
    /\ pc' = "idle"
    /\ UNCHANGED <<whisper_model, loadAttempts, loadSuccesses, disk, now, call, calls,
                   req, idx, results>>

Next == AnalyzeEndpoint \/ ProcessFile \/ Generate

Spec == Init /\ [][Next]_vars

-----------------------------------------------------------------------------
(* Claims about process_files and the handler *)

\* process_files was called for the request and did not raise
InProcessFiles == trace.process_files = 1 /\ trace.failure # "process_files"

\* the number of files the loop has gone through
Handled_n == IF pc = "loop" THEN idx - 1 ELSE Len(req.files)

\* C1: whatever the outcome of each file (a filename that cannot be
\* classified, a failed save, a failed analysis, success), the loop appends
\* exactly one record per file, in the order of the files: after i files
\* results holds i records, the k-th made for and named after the k-th
\* file, and process_files returns with one record for each of the N files.
C1_OneRecordPerFile ==
    InProcessFiles =>
        /\ Len(results) = Handled_n
        /\ trace.recorded = [k \in 1..Handled_n |-> k]
        /\ \A k \in 1..Handled_n : results[k].original_name = req.files[k].filename

\* C1 witness: process_files has returned two records, the first for a file
\* without filename, the second for a file whose save failed
C1_Witness ==
    /\ InProcessFiles
    /\ pc = "generate"
    /\ Len(req.files) = 2
    /\ Len(results) = 2
    /\ results[1].kind = "unknown"
    /\ trace.save_failed = {2}

\* C2: analyze_file is called for a file only if its bytes were persisted; a
\* file whose save failed has the record {stored_path: null, kind: the
\* classified kind, summary: {error: "Failed to save file: ..."}} and is
\* never analyzed.
C2_AnalyzeOnlyIfSaved ==
    InProcessFiles =>
        /\ trace.analyzed \subseteq trace.saved
        /\ \A k \in trace.save_failed :
              /\ k \notin trace.analyzed
              /\ k <= Len(results)
              /\ results[k] =
                   [original_name |-> req.files[k].filename,
                    stored_path |-> None,
                    kind |-> detect_kind(req.files[k].filename, req.files[k].content_type),
                    summary |-> [error |-> "Failed to save file"]]

\* C2 witness: the first file's save failed after its file was created, the
\* second was saved and analyzed
C2_Witness ==
    /\ InProcessFiles
    /\ trace.save_failed = {1}
    /\ trace.saved = {2}
    /\ trace.analyzed = {2}
    /\ trace.wrote # {}
    /\ results[1].stored_path = None
    /\ results[1].kind = "video"

\* C8: a request with a wrong key is answered 401, also when its prompt is
\* empty; one with the right key and an empty or whitespace-only prompt is
\* answered 400; both are answered at once, process_files and
\* generate_response not called and nothing written to disk.  A failure of
\* process_files or of generate_response is answered 500.
C8_Validation ==
    [][/\ (pc = "idle" /\ req'.api_key # API_KEY) =>
              /\ status' = 401
              /\ pc' = "idle"
              /\ trace'.process_files = 0 /\ trace'.generate_response = 0
              /\ disk' = disk
       /\ (pc = "idle" /\ req'.api_key = API_KEY /\ strip(req'.prompt) = <<>>) =>
              /\ status' = 400
              /\ pc' = "idle"
              /\ trace'.process_files = 0 /\ trace'.generate_response = 0
              /\ disk' = disk
       /\ trace'.failure # "none" => (status' = 500 /\ pc' = "idle")]_vars

\* C8 witness: a request with files, a wrong key and an empty prompt was answered 401
C8_Witness ==
    /\ pc = "idle"
    /\ status = 401
    /\ req.api_key # API_KEY
    /\ req.prompt = <<>>
    /\ req.files # <<>>
    /\ trace = NoTrace
    /\ disk = {}

RecordKinds == FolderKinds \cup {"unknown"}

\* C9: every record of results has a kind among tabular, document, image,
\* audio, video, other, unknown, a stored_path that is a path or null, and a
\* summary with a "type" field.
C9_RecordShape ==
    \A k \in 1..Len(results) :
        /\ results[k].kind \in RecordKinds
        /\ (results[k].stored_path = None \/ Len(results[k].stored_path) > 0)
        /\ "type" \in DOMAIN results[k].summary

\* a path that analyze_video made for its temporary audio extract
IsTmpAudio(p) ==
    LET suffix == TmpAudio(<<>>) IN
    Len(p) >= Len(suffix) /\ SubSeq(p, Len(p) - Len(suffix) + 1, Len(p)) = suffix

\* the paths the step opened for writing
NewlyOpened == { trace'.opened[k] : k \in (Len(trace.opened) + 1)..Len(trace'.opened) }

\* C11: over any sequence of process_files calls a stored file is created
\* once: no upload is written to a path that already exists (so any two
\* uploads, also two with the same name and kind, get distinct paths and
\* none overwrites another), and no stored file is ever deleted.
C11_CreatedOnce ==
    [][/\ pc = "loop" => NewlyOpened \cap disk = {}
       /\ \A p \in disk : p \in disk' \/ IsTmpAudio(p)]_vars

====
